---- MODULE Spec2Model ----
(***************************************************************************)
(* Schema → entity-relationship graph conversion.                          *)
(*                                                                         *)
(* The model follows a run of the tool: a parser (src/src/parsers, and the *)
(* parsers of the generate-schema-graph script) turns the text of a schema *)
(* file into a ParsedSchema, a GraphConverter creates one node per         *)
(* document/object type and then proposes edges field by field, each       *)
(* passing through createEdgeIfNotExists, and the DOT text is written.     *)
(*                                                                         *)
(* Strings that the code inspects character by character (type names,      *)
(* field names, titles, edge labels, dedup keys) are sequences of          *)
(* one-character strings; strings that are only compared (`type` markers,  *)
(* style tags, error names) are TLA+ strings.                              *)
(***************************************************************************)
EXTENDS Integers, Sequences, FiniteSets, TLC

\* ------------------------------------------------------------------ bounds

\* Types in a ParsedSchema handed to the converter directly.
MaxTypes == 2
\* Fields of a type in such a schema.
MaxFields == 2
\* Entries of the root array of an input file.
MaxRawTypes == 2
\* Fields of an entry of an input file.
MaxRawFields == 1
\* Calls of convert() on one converter.
MaxConverts == 2

\* ------------------------------------------------------------ JS values

\* `undefined` where a string is expected (an absent name, title or type).
Absent == <<"undefined">>

\* An optional list (fields, of, to): None is an absent property, Some(l) a
\* present one; an empty list is present (and truthy in JavaScript).
None == <<>>

Some(l) == <<l>>

IsPresent(o) == Len(o) > 0

Get(o) == o[1]

\* Template-literal / concatenation rendering of a possibly absent string.
Str(s) == IF s = Absent THEN <<"u", "n", "d", "e", "f", "i", "n", "e", "d">> ELSE s

\* String.prototype.toLowerCase, on the letters the model uses.
LowerChar(ch) ==
    CASE ch = "A" -> "a"
      [] ch = "B" -> "b"
      [] ch = "C" -> "c"
      [] ch = "D" -> "d"
      [] ch = "E" -> "e"
      [] ch = "F" -> "f"
      [] ch = "I" -> "i"
      [] ch = "R" -> "r"
      [] OTHER -> ch

toLowerCase(s) == [i \in 1..Len(s) |-> LowerChar(s[i])]

startsWith(s, p) == Len(s) >= Len(p) /\ SubSeq(s, 1, Len(p)) = p

\* /suffix$/i : s ends with suf, letters compared case-insensitively.
EndsWithCI(s, suf) ==
    /\ Len(s) >= Len(suf)
    /\ toLowerCase(SubSeq(s, Len(s) - Len(suf) + 1, Len(s))) = suf

DropLast(s, n) == SubSeq(s, 1, Len(s) - n)

\* fieldName.replace(/ref$|id$|_ref$|_id$/i, ""): the leftmost match is
\* replaced, so `_ref` and `_id` win over `ref` and `id` when both end the name.
cleanName(fieldName) ==
    IF EndsWithCI(fieldName, <<"_", "r", "e", "f">>) THEN DropLast(fieldName, 4)
    ELSE IF EndsWithCI(fieldName, <<"r", "e", "f">>) THEN DropLast(fieldName, 3)
    ELSE IF EndsWithCI(fieldName, <<"_", "i", "d">>) THEN DropLast(fieldName, 3)
    ELSE IF EndsWithCI(fieldName, <<"i", "d">>) THEN DropLast(fieldName, 2)
    ELSE fieldName

\* Elements of a sequence, as a set.
Range(s) == {s[i] : i \in 1..Len(s)}

\* All sequences over S of length 0..n.
SeqUpTo(S, n) == UNION {[1..k -> S] : k \in 0..n}

RECURSIVE Concat(_)
\* The concatenation of a sequence of sequences (nested forEach, in order).
Concat(ss) == IF Len(ss) = 0 THEN <<>> ELSE Head(ss) \o Concat(Tail(ss))

Min(S) == CHOOSE x \in S : \A y \in S : x <= y

\* ----------------------------------------------------- canonical schema

\* SchemaField: `to` holds the `type` of each `{ type }` entry.
Field(name, type, title, to, of, fields) ==
    [name |-> name, type |-> type, title |-> title, to |-> to, of |-> of,
     fields |-> fields]

\* SchemaType (its `title` and `of` are never read by the converter).
Type(name, type, fields) == [name |-> name, type |-> type, fields |-> fields]

\* The default document predicate of createParsedSchema.
documentTypeFilter(t) == t.type = "document"

\* BaseSchemaParser.createParsedSchema: `types` is kept as given.
createParsedSchema(types) ==
    [types |-> types,
     documentTypes |-> {types[i].name : i \in {j \in 1..Len(types) : documentTypeFilter(types[j])}},
     allTypeNames |-> {types[i].name : i \in 1..Len(types)}]

\* ---------------------------------------------------------- GraphConverter

\* The category test, passing whatever has a `type`.
IsTyped(t) == t.type # "undefined"

\* The category test of both passes of convert().
IsGraphType(t) == t.type = "document" \/ t.type = "object"

\* this.schema.types.find((t) => t.name === name): the first match, if any.
findType(sch, name) ==
    LET idx == {i \in 1..Len(sch.types) : sch.types[i].name = name}
    IN  IF idx = {} THEN None ELSE Some(sch.types[Min(idx)])

\* The search for the object type without its category test.
findTypeOfAnyCategory(sch, name) == findType(sch, name)

\* this.schema.types.find((t) => t.name === name && t.type === "object").
findObjectType(sch, name) ==
    LET idx == {i \in 1..Len(sch.types) :
                    sch.types[i].name = name /\ sch.types[i].type = "object"}
    IN  IF idx = {} THEN None ELSE Some(sch.types[Min(idx)])

\* The target test without its category test: any known name passes.
IsKnownType(sch, name) == name \in sch.allTypeNames

\* allTypeNames.has(name), then the found type is a document or an object.
IsKnownGraphType(sch, name) ==
    /\ name \in sch.allTypeNames
    /\ LET found == findType(sch, name)
       IN  IsPresent(found) /\ IsGraphType(Get(found))

\* GraphConverter.findPossibleReferenceTargets: exact name, lower-cased title,
\* name without its ref/id suffix; each pushed when it names a known
\* document/object type.
findPossibleReferenceTargets(sch, fieldName, fieldTitle) ==
    LET byName == IF IsKnownGraphType(sch, fieldName) THEN <<fieldName>> ELSE <<>>
        byTitle == IF fieldTitle # Absent /\ IsKnownGraphType(sch, toLowerCase(fieldTitle))
                   THEN <<toLowerCase(fieldTitle)>> ELSE <<>>
        clean == cleanName(fieldName)
        byClean == IF clean # fieldName /\ IsKnownGraphType(sch, clean)
                   THEN <<clean>> ELSE <<>>
    IN  byName \o byTitle \o byClean

\* `${sourceFieldId}_left:w`: the west side of the field's left cell.
leftPort(sourceFieldId) == Str(sourceFieldId) \o <<"_", "l", "e", "f", "t", ":", "w">>

\* One call of createEdgeIfNotExists, before it is made: the arguments.
Candidate(source, target, label, kind, sourceFieldId) ==
    [source |-> source, target |-> target, label |-> label, kind |-> kind,
     port |-> leftPort(sourceFieldId)]

\* The explicit targets as they are listed, untested.
listedTargets(sch, to) == to

\* The explicit targets of a reference that name a known document/object type,
\* in their listed order.
explicitTargets(sch, to) ==
    LET Ok(t) == IsKnownGraphType(sch, t)
    IN  SelectSeq(to, Ok)

\* `field.to` alone: an empty list counts as a list of targets.
hasTargetList(field) == IsPresent(field.to)

\* field.to && field.to.length > 0
hasExplicitTargets(field) == IsPresent(field.to) /\ Len(Get(field.to)) > 0

\* An array item resolved as a top-level reference would be: bare label, direct
\* kind.
processArrayItemAsField(sch, sourceNodeId, sourceFieldId, itemType) ==
    IF itemType.type = "reference" /\ hasExplicitTargets(itemType)
    THEN LET ts == explicitTargets(sch, Get(itemType.to))
         IN  [i \in 1..Len(ts) |->
                Candidate(sourceNodeId, ts[i], Str(sourceFieldId), "DIRECT_REFERENCE",
                          sourceFieldId)]
    ELSE <<>>

\* GraphConverter.processArrayItemForEdges: the calls it makes, in order.
processArrayItemForEdges(sch, sourceNodeId, sourceFieldId, itemType) ==
    LET arr == Str(sourceFieldId) \o <<"[", "]">>
        refs ==
            IF itemType.type # "reference" THEN <<>>
            ELSE IF hasExplicitTargets(itemType)
            THEN LET ts == explicitTargets(sch, Get(itemType.to))
                 IN  [i \in 1..Len(ts) |->
                        Candidate(sourceNodeId, ts[i], arr, "ARRAY_REFERENCE", sourceFieldId)]
            ELSE LET ts == findPossibleReferenceTargets(sch, sourceFieldId, itemType.title)
                 IN  [i \in 1..Len(ts) |->
                        Candidate(sourceNodeId, ts[i], arr \o <<"?">>,
                                  "INFERRED_ARRAY_REFERENCE", sourceFieldId)]
        objs ==
            IF itemType.type = "object" /\ itemType.name # Absent
            THEN LET objectType == findObjectType(sch, itemType.name)
                 IN  IF IsPresent(objectType)
                     THEN <<Candidate(sourceNodeId, Get(objectType).name, arr,
                                      "ARRAY_COMPOSITION", sourceFieldId)>>
                     ELSE <<>>
            ELSE <<>>
    IN  refs \o objs

\* GraphConverter.processFieldForEdges: the calls of createEdgeIfNotExists it
\* makes for one named top-level field, in order.
processFieldForEdges(sch, sourceNodeId, sourceFieldId, field) ==
    LET refs ==
            IF field.type # "reference" THEN <<>>
            ELSE IF hasExplicitTargets(field)
            THEN LET ts == explicitTargets(sch, Get(field.to))
                 IN  [i \in 1..Len(ts) |->
                        Candidate(sourceNodeId, ts[i], Str(sourceFieldId),
                                  "DIRECT_REFERENCE", sourceFieldId)]
            ELSE LET ts == findPossibleReferenceTargets(sch, sourceFieldId, field.title)
                 IN  [i \in 1..Len(ts) |->
                        Candidate(sourceNodeId, ts[i], Str(sourceFieldId) \o <<"?">>,
                                  "INFERRED_REFERENCE", sourceFieldId)]
        objs ==
            IF field.type = "object" /\ field.name # Absent
            THEN LET objectType == findObjectType(sch, field.name)
                 IN  IF IsPresent(objectType)
                     THEN <<Candidate(sourceNodeId, Get(objectType).name,
                                      Str(sourceFieldId), "OBJECT_COMPOSITION",
                                      sourceFieldId)>>
                     ELSE <<>>
            ELSE <<>>
        arrs ==
            IF field.type = "array" /\ IsPresent(field.of)
            THEN Concat([i \in 1..Len(Get(field.of)) |->
                           processArrayItemForEdges(sch, sourceNodeId, sourceFieldId,
                                                    Get(field.of)[i])])
            ELSE <<>>
    IN  refs \o objs \o arrs

\* `${source}->${target}:${label}`
edgeKey(source, target, label) ==
    Str(source) \o <<"-", ">">> \o Str(target) \o <<":">> \o label

\* The edge handed to graph.edge([sourceNode, targetNode], style): it leaves
\* `${source}:${sourcePort}` and enters `${target}:title`.
Edge(cand) ==
    [source |-> cand.source, sourcePort |-> cand.port,
     target |-> cand.target, targetPort |-> <<"t", "i", "t", "l", "e">>,
     label |-> cand.label, kind |-> cand.kind]

RECURSIVE getFieldTypeLabel(_)
\* GraphConverter.getFieldTypeLabel, as the pieces of the label text.
getFieldTypeLabel(field) ==
    IF field.type = "array" /\ IsPresent(field.of)
    THEN <<"Array<">>
         \o Concat([i \in 1..Len(Get(field.of)) |->
                      (IF i > 1 THEN <<" | ">> ELSE <<>>)
                      \o getFieldTypeLabel(Get(field.of)[i])])
         \o <<">">>
    ELSE IF field.type = "reference" /\ IsPresent(field.to)
    THEN <<"Ref<">>
         \o Concat([i \in 1..Len(Get(field.to)) |->
                      (IF i > 1 THEN <<" | ">> ELSE <<>>) \o Str(Get(field.to)[i])])
         \o <<">">>
    ELSE <<field.type>>

\* createNode without its filter: every field is shown.
isAnyField(field) == TRUE

\* The filter of createNode: fields whose name starts with `_` are left out.
isVisibleField(field) == ~(field.name # Absent /\ startsWith(field.name, <<"_">>))

\* The rows of the node's table: { name: field.name || "unnamed", type: label }.
nodeFields(type) ==
    IF IsPresent(type.fields)
    THEN LET shown == SelectSeq(Get(type.fields), isVisibleField)
         IN  [i \in 1..Len(shown) |->
                [name |-> IF shown[i].name = Absent
                          THEN <<"u", "n", "n", "a", "m", "e", "d">>
                          ELSE shown[i].name,
                 type |-> getFieldTypeLabel(shown[i])]]
    ELSE <<>>

\* What createNode passes to graph.node(type.name, { label, ... }).
Node(sch, type) ==
    [id |-> type.name, fields |-> nodeFields(type),
     isDocument |-> type.name \in sch.documentTypes]

\* graph.node(id, attributes) of ts-graphviz: the node with that id is created
\* when there is none, and the attributes are applied to it.
\* Called with `undefined` for the id it creates nothing.
graphNode(ns, node) ==
    LET idx == {i \in 1..Len(ns) : ns[i].id = node.id}
    IN  IF node.id = Absent THEN ns
        ELSE IF idx = {} THEN Append(ns, node)
        ELSE [ns EXCEPT ![Min(idx)] = node]


\* createEdges without `if (!field.name) continue`: every field is resolved.
createEdgesOfEveryField(sch, sourceType) ==
    IF ~IsPresent(sourceType.fields) THEN <<>>
    ELSE [i \in 1..Len(Get(sourceType.fields)) |->
            [sourceNodeId |-> sourceType.name,
             sourceFieldId |-> Get(sourceType.fields)[i].name,
             field |-> Get(sourceType.fields)[i]]]

\* GraphConverter.createEdges: the calls of processFieldForEdges for one type;
\* a type without `fields` gives none and a field without a name is passed over.
createEdges(sch, sourceType) ==
    IF ~IsPresent(sourceType.fields) THEN <<>>
    ELSE LET named == SelectSeq(Get(sourceType.fields), LAMBDA f : f.name # Absent)
         IN  [i \in 1..Len(named) |->
                [sourceNodeId |-> sourceType.name, sourceFieldId |-> named[i].name,
                 field |-> named[i]]]

\* The second pass of convert(): createEdges for each document/object type, in
\* `types` order.
edgeCalls(sch) ==
    Concat([i \in 1..Len(sch.types) |->
              IF IsGraphType(sch.types[i]) THEN createEdges(sch, sch.types[i]) ELSE <<>>])

\* Calling a method of `undefined` throws a TypeError.
CallOnUndefined(x) == x = Absent

\* findPossibleReferenceTargets without `fieldTitle &&`.
findPossibleReferenceTargetsUnguarded(fieldTitle) == CallOnUndefined(fieldTitle)

\* findPossibleReferenceTargets throws when fieldTitle.toLowerCase() is reached
\* without a title: `fieldTitle &&` keeps it from being reached.
findPossibleReferenceTargetsThrows(fieldTitle) ==
    fieldTitle # Absent /\ CallOnUndefined(fieldTitle)

\* processArrayItemForEdges throws when a call it makes throws.
processArrayItemForEdgesThrows(itemType) ==
    /\ itemType.type = "reference"
    /\ ~hasExplicitTargets(itemType)
    /\ findPossibleReferenceTargetsThrows(itemType.title)

\* processFieldForEdges throws when a call it makes throws; `field.of &&` keeps
\* forEach from being called on an absent item list.
processFieldForEdgesThrows(field) ==
    \/ /\ field.type = "reference"
       /\ ~hasExplicitTargets(field)
       /\ findPossibleReferenceTargetsThrows(field.title)
    \/ /\ field.type = "array"
       /\ IsPresent(field.of)
       /\ \E i \in 1..Len(Get(field.of)) : processArrayItemForEdgesThrows(Get(field.of)[i])

\* --------------------------------------------------------------- the inputs

a == <<"a">>

b == <<"b">>

\* A name no type of the model carries.
c == <<"c">>

bId == <<"b", "I", "d">>

\* A name with the separator of the dedup key in it.
bb == <<"b", ":", "b">>

\* A reference with explicit targets: a known one, an unknown one, the first again.
RefTo == Field(b, "reference", Absent, Some(<<b, c, b>>), None, None)

\* A reference without targets: its title and its suffix-stripped name may match.
RefInfer == Field(bId, "reference", <<"A">>, None, None, None)

\* A reference with an empty target list whose name and title name the same type.
RefEmpty == Field(a, "reference", <<"A">>, Some(<<>>), None, None)

\* An object field, with a reference among its children.
Obj ==
    Field(b, "object", Absent, None, None,
          Some(<<Field(a, "reference", Absent, Some(<<a>>), None, None)>>))

\* An array of a reference, an object, a reference without targets or title, and
\* an array of a reference.
Arr ==
    Field(a, "array", Absent, None,
          Some(<<Field(Absent, "reference", Absent, Some(<<b>>), None, None),
                 Field(b, "object", Absent, None, None, None),
                 Field(Absent, "reference", Absent, None, None, None),
                 Field(Absent, "array", Absent, None,
                       Some(<<Field(Absent, "reference", Absent, Some(<<bb>>), None, None)>>),
                       None)>>),
          None)

\* An internal field that is a reference.
Internal == Field(<<"_", "b">>, "reference", Absent, Some(<<b>>), None, None)

\* A reference without a name.
Nameless == Field(Absent, "reference", Absent, Some(<<a>>), None, None)

\* An array without an item list.
ArrNoOf == Field(bId, "array", Absent, None, None, None)

\* A reference with an explicit target whose name ends with `?`.
RefMark == Field(<<"b", "I", "d", "?">>, "reference", Absent, Some(<<b>>), None, None)

\* A reference named `b:b` to b, and a reference named b to `b:b`.
RefColonName == Field(bb, "reference", Absent, Some(<<b>>), None, None)

RefColonTarget == Field(b, "reference", Absent, Some(<<bb>>), None, None)

\* A reference without targets whose title, `B: B`, has white space in it.
RefTitle == Field(c, "reference", <<"B", ":", " ", "B">>, None, None, None)

FieldPool ==
    {RefTo, RefInfer, RefEmpty, Obj, Arr, Internal, Nameless, ArrNoOf, RefMark,
     RefColonName, RefColonTarget, RefTitle}

TypeNames == {a, b, bb}

Categories == {"document", "object", "string"}

\* The `fields` property shared by the document/object types of an input: absent,
\* or a list of up to n fields of the pool.
FieldsChoices(pool, n) == {None} \cup {Some(l) : l \in SeqUpTo(pool, n)}

\* A ParsedSchema as types.ts declares it: every type has a name and a `type`.
SchemaOf(heads, fo) ==
    createParsedSchema(
        [i \in 1..Len(heads) |->
            Type(heads[i][1], heads[i][2],
                 IF heads[i][2] \in {"document", "object"} THEN fo ELSE None)])

Schemas ==
    {SchemaOf(heads, fo) :
        heads \in SeqUpTo(TypeNames \X Categories, MaxTypes),
        fo \in FieldsChoices(FieldPool, MaxFields)}

\* ------------------------------------------------------------- the parsers

\* A `type` marker that is absent.
AbsentType == "undefined"

\* The text of a schema file, by what the two text readers make of it:
\* `strict` is the value JSON.parse returns (None when it throws), `bracketed`
\* says that the trimmed text starts with `[` and ends with `]`, `literal` is the
\* value eval returns (None when it throws); `jsonError` and `evalError` are the
\* messages of the errors the two throw ("" for a reader that returns).
Content(strict, bracketed, literal, jsonError, evalError) ==
    [exists |-> TRUE, strict |-> strict, bracketed |-> bracketed, literal |-> literal,
     jsonError |-> jsonError, evalError |-> evalError]

\* A schema path at which there is no file.
MissingFile == [Content(None, FALSE, None, "", "") EXCEPT !.exists = FALSE]

\* BaseSchemaParser.loadFileContent: the error it throws ("" when it returns).
loadFileContent(file) == IF ~file.exists THEN "FileNotFound" ELSE ""

\* A root value: an array of entries, or something else.
ArrayRoot(items) == [isArray |-> TRUE, items |-> items]

NotAnArray == [isArray |-> FALSE, items |-> <<>>]

\* `Failed to parse schema file: ${errorMsg}`
failedToParse(errorMsg) == <<"Failed to parse schema file: ", errorMsg>>

\* parseJsonOrJs with eval tried on any text JSON.parse refused.
parseJsonOrJsAnyText(content) ==
    IF IsPresent(content.strict)
    THEN [threw |-> "", value |-> Get(content.strict),
          readers |-> <<"JSON.parse">>, message |-> <<>>]
    ELSE IF IsPresent(content.literal)
    THEN [threw |-> "", value |-> Get(content.literal),
          readers |-> <<"JSON.parse", "eval">>, message |-> <<>>]
    ELSE [threw |-> "ParseFailure", value |-> NotAnArray,
          readers |-> <<"JSON.parse", "eval">>,
          message |-> failedToParse(content.jsonError)]

\* BaseSchemaParser.parseJsonOrJs: the value, or the error it throws, with the
\* readers it ran, in order.
parseJsonOrJs(content) ==
    IF IsPresent(content.strict)
    THEN [threw |-> "", value |-> Get(content.strict),
          readers |-> <<"JSON.parse">>, message |-> <<>>]
    ELSE IF ~content.bracketed
    THEN [threw |-> "ParseFailure", value |-> NotAnArray,
          readers |-> <<"JSON.parse">>,
          message |-> failedToParse(content.jsonError)]
    ELSE IF IsPresent(content.literal)
    THEN [threw |-> "", value |-> Get(content.literal),
          readers |-> <<"JSON.parse", "eval">>, message |-> <<>>]
    ELSE [threw |-> "ParseFailure", value |-> NotAnArray,
          readers |-> <<"JSON.parse", "eval">>,
          message |-> failedToParse(content.jsonError)]

\* /\s+/g replaced by "": white space is removed.
removeWhitespace(s) == SelectSeq(s, LAMBDA ch : ch \notin {" ", "\t", "\n"})

\* inferReferenceTarget of the script's parsers: the first non-empty one of the
\* suffix-stripped name, the normalised title, the name, the name without its `s`.
inferReferenceTarget(fieldName, fieldTitle) ==
    LET patterns ==
            <<cleanName(fieldName),
              IF fieldTitle # Absent THEN removeWhitespace(toLowerCase(fieldTitle)) ELSE <<>>,
              fieldName,
              IF Len(fieldName) > 0 /\ fieldName[Len(fieldName)] = "s"
              THEN DropLast(fieldName, 1) ELSE <<>>>>
        kept == SelectSeq(patterns, LAMBDA x : Len(x) > 0)
    IN  IF Len(kept) = 0 THEN None ELSE Some(kept[1])

\* `!field || !field.name || !field.type` of the field transformers, negated.
hasNameAndType(x) == x.name # Absent /\ x.type # AbsentType

RECURSIVE transformSchemaClubField(_)
\* SchemaClubParser.transformSchemaClubField of the script, for a field that has a
\* name and a type (the others are filtered out by the callers' filter(Boolean)).
transformSchemaClubField(field) ==
    LET each(l) == LET keptl == SelectSeq(l, hasNameAndType)
                   IN  [i \in 1..Len(keptl) |-> transformSchemaClubField(keptl[i])]
        possibleTarget == inferReferenceTarget(field.name, field.title)
    IN  Field(field.name, field.type, field.title,
              IF field.type = "reference" /\ IsPresent(possibleTarget)
              THEN Some(<<Get(possibleTarget)>>) ELSE None,
              IF field.type = "array" /\ IsPresent(field.of)
              THEN Some(each(Get(field.of))) ELSE None,
              IF IsPresent(field.fields) THEN Some(each(Get(field.fields))) ELSE None)

\* SchemaClubParser.transformSchemaClubType of the script.
transformSchemaClubType(item) ==
    Type(item.name, item.type,
         IF IsPresent(item.fields)
         THEN LET keptl == SelectSeq(Get(item.fields), hasNameAndType)
              IN  Some([i \in 1..Len(keptl) |-> transformSchemaClubField(keptl[i])])
         ELSE None)

RECURSIVE transformSimpleField(_)
\* SanityParser.transformSimpleField of the script: an explicit `to` is kept, a
\* reference without one gets an inferred target.
transformSimpleField(field) ==
    LET each(l) == LET keptl == SelectSeq(l, hasNameAndType)
                   IN  [i \in 1..Len(keptl) |-> transformSimpleField(keptl[i])]
        possibleTarget == inferReferenceTarget(field.name, field.title)
    IN  Field(field.name, field.type, field.title,
              IF field.type = "reference" /\ IsPresent(field.to) THEN field.to
              ELSE IF field.type = "reference" /\ IsPresent(possibleTarget)
              THEN Some(<<Get(possibleTarget)>>) ELSE None,
              IF field.type = "array" /\ IsPresent(field.of)
              THEN Some(each(Get(field.of))) ELSE None,
              IF IsPresent(field.fields) THEN Some(each(Get(field.fields))) ELSE None)

\* SanityParser.transformSimpleType of the script.
transformSimpleType(item) ==
    Type(item.name, item.type,
         IF IsPresent(item.fields)
         THEN LET keptl == SelectSeq(Get(item.fields), hasNameAndType)
              IN  Some([i \in 1..Len(keptl) |-> transformSimpleField(keptl[i])])
         ELSE None)

\* A node of the nested dialect (an attribute definition, a `value` wrapper, an
\* array-item descriptor, a union member): `of` is absent, one object, or a list;
\* `attributes` is an ordered list of <<key, node>> pairs.
NNode(dereferencesTo, type, name, value, of, attributes) ==
    [dereferencesTo |-> dereferencesTo, type |-> type, name |-> name, value |-> value,
     of |-> of, attributes |-> attributes]

NoOf == [kind |-> "absent", items |-> <<>>]

OfObject(node) == [kind |-> "object", items |-> <<node>>]

OfArray(nodes) == [kind |-> "array", items |-> nodes]

RECURSIVE uniq(_)
\* [...new Set(references)]: the first occurrence of each element, in order.
uniq(l) ==
    IF l = <<>> THEN <<>>
    ELSE LET front == uniq(DropLast(l, 1))
         IN  IF l[Len(l)] \in Range(front) THEN front ELSE Append(front, l[Len(l)])

RECURSIVE extractAllReferencesRecursive(_)
\* SanityParser.extractAllReferencesRecursive of the script: the markers of the
\* nodes, of their `value`, of their `of` when it is a list, of their attributes.
extractAllReferencesRecursive(nodes) ==
    LET ofNode(node) ==
            (IF node.dereferencesTo # Absent THEN <<node.dereferencesTo>> ELSE <<>>)
            \o (IF node.type = "inline" /\ node.name # Absent THEN <<node.name>> ELSE <<>>)
            \o (IF IsPresent(node.value)
                THEN extractAllReferencesRecursive(<<Get(node.value)>>) ELSE <<>>)
            \o (IF node.of.kind = "array"
                THEN extractAllReferencesRecursive(node.of.items) ELSE <<>>)
            \o (IF IsPresent(node.attributes)
                THEN Concat([i \in 1..Len(Get(node.attributes)) |->
                               extractAllReferencesRecursive(<<Get(node.attributes)[i][2]>>)])
                ELSE <<>>)
    IN  uniq(Concat([i \in 1..Len(nodes) |-> ofNode(nodes[i])]))

\* SanityParser.getFieldType of the script, for a value that is there.
getFieldType(value) == IF value.type = "undefined" THEN "unknown" ELSE value.type

\* One entry of the list transformArrayItems returns (None for a dropped item).
transformArrayItem(item) ==
    LET ref(ts) == Some(Field(Absent, "reference", Absent, Some(ts), None, None))
        references == extractAllReferencesRecursive(item.of.items)
        nestedRefs == extractAllReferencesRecursive(<<item>>)
    IN  IF item.dereferencesTo # Absent THEN ref(<<item.dereferencesTo>>)
        ELSE IF item.type = "union" /\ item.of.kind = "array" /\ Len(references) > 0
        THEN ref(references)
        ELSE IF item.type = "object" /\ Len(nestedRefs) > 0 THEN ref(nestedRefs)
        ELSE IF item.type # "undefined"
        THEN Some(Field(Absent, item.type, Absent, None, None, None))
        ELSE IF IsPresent(item.value)
        THEN Some(Field(Absent, getFieldType(Get(item.value)), Absent, None, None, None))
        ELSE None

\* SanityParser.transformArrayItems of the script: an `of` that is one object is
\* taken for a list of one.
transformArrayItems(arrayOf) ==
    LET made == [i \in 1..Len(arrayOf.items) |-> transformArrayItem(arrayOf.items[i])]
        kept == SelectSeq(made, IsPresent)
    IN  [i \in 1..Len(kept) |-> Get(kept[i])]

\* fieldName.startsWith("_")
isInternalName(fieldName) == startsWith(fieldName, <<"_">>)

RECURSIVE transformSanityField(_, _)
\* SanityParser.transformSanityField of the script (None for `null`).
transformSanityField(fieldName, fieldDef) ==
    IF ~IsPresent(fieldDef.value) THEN None
    ELSE
    LET value == Get(fieldDef.value)
        direct == IF fieldDef.dereferencesTo # Absent THEN fieldDef.dereferencesTo
                  ELSE value.dereferencesTo
        allRefs == extractAllReferencesRecursive(<<fieldDef>>)
        \* after `if (fieldDef.dereferencesTo || fieldDef.value.dereferencesTo)`
        to1 == IF direct # Absent THEN Some(<<direct>>) ELSE None
        type1 == IF direct # Absent THEN "reference" ELSE getFieldType(value)
        \* after `if (allRefs.length > 0 && !field.to)`
        to2 == IF Len(allRefs) > 0 /\ ~IsPresent(to1) THEN Some(allRefs) ELSE to1
        type2 == IF Len(allRefs) > 0 /\ ~IsPresent(to1) THEN "reference" ELSE type1
        isArr == value.type = "array" /\ value.of.kind # "absent"
        isRefObj == value.type = "object" /\ value.dereferencesTo # Absent
        isObj == value.type = "object" /\ value.dereferencesTo = Absent
                    /\ IsPresent(value.attributes)
        subs == IF isObj
                THEN LET attrs == SelectSeq(Get(value.attributes),
                                            LAMBDA kv : ~isInternalName(kv[1]))
                         made == [i \in 1..Len(attrs) |->
                                    transformSanityField(attrs[i][1], attrs[i][2])]
                         kept == SelectSeq(made, IsPresent)
                     IN  [i \in 1..Len(kept) |-> Get(kept[i])]
                ELSE <<>>
    IN  Some(Field(fieldName,
                   IF isArr THEN "array"
                   ELSE IF isRefObj THEN "reference"
                   ELSE IF isObj THEN "object"
                   ELSE type2,
                   Absent,
                   IF isRefObj THEN Some(<<value.dereferencesTo>>) ELSE to2,
                   IF isArr THEN Some(transformArrayItems(value.of)) ELSE None,
                   IF isObj THEN Some(subs) ELSE None))

\* SanityParser.transformSanityType of the script, for an entry whose `type` is a
\* string.
transformSanityType(sanityType) ==
    LET actualType ==
            IF /\ sanityType.type = "type"
               /\ IsPresent(sanityType.value)
               /\ Get(sanityType.value).type # "undefined"
            THEN Get(sanityType.value).type
            ELSE sanityType.type
        attributesSource ==
            IF IsPresent(sanityType.attributes) THEN sanityType.attributes
            ELSE IF IsPresent(sanityType.value) THEN Get(sanityType.value).attributes
            ELSE None
    IN  Type(sanityType.name, actualType,
             IF IsPresent(attributesSource)
             THEN LET attrs == SelectSeq(Get(attributesSource),
                                         LAMBDA kv : ~isInternalName(kv[1]))
                      made == [i \in 1..Len(attrs) |->
                                 transformSanityField(attrs[i][1], attrs[i][2])]
                      kept == SelectSeq(made, IsPresent)
                  IN  Some([i \in 1..Len(kept) |-> Get(kept[i])])
             ELSE None)

\* sampleItem && sampleItem.attributes && !sampleItem.fields
isComplexFormat(items) ==
    /\ Len(items) > 0
    /\ IsPresent(items[1].attributes)
    /\ ~IsPresent(items[1].fields)

\* The classes a run may use: those of src/parsers, and those of the script.
Parsers ==
    {"SchemaClubParser", "SanityParser", "script.SchemaClubParser", "script.SanityParser"}

\* What parse() does with the root array (the root is an array here):
\* src/parsers' SchemaClubParser takes it as it is, the script's parsers keep the
\* entries that have a name and a type and transform them; the script's
\* SanityParser takes the file for the nested format when its first entry has
\* `attributes` and no `fields`, and for its simple format otherwise.
typesOf(p, items) ==
    LET keptl == SelectSeq(items, hasNameAndType)
    IN  CASE p = "SchemaClubParser" -> items
          [] p = "script.SchemaClubParser" ->
                [i \in 1..Len(keptl) |-> transformSchemaClubType(keptl[i])]
          [] p = "script.SanityParser" ->
                IF isComplexFormat(items)
                THEN [i \in 1..Len(keptl) |-> transformSanityType(keptl[i])]
                ELSE [i \in 1..Len(keptl) |-> transformSimpleType(keptl[i])]

\* ------------------------------------------------------------ the input files

RawHeads ==
    {<<a, "document">>, <<b, "document">>, <<b, "object">>, <<b, "string">>,
     <<Absent, "document">>, <<b, AbsentType>>}

RawFieldPool == {RefTo, RefInfer, Obj, Arr, Internal, Nameless}

\* An entry of the root array of a file: `fields` in the schema.club format,
\* `attributes` (or a `value` that has them) in the nested one.
RawType(name, type, fields, attributes, value) ==
    [name |-> name, type |-> type, fields |-> fields, attributes |-> attributes,
     value |-> value]

\* The root array whose entries have the names and types of `heads`, the
\* documents and objects among them carrying the fields `fo`.
RawRoot(heads, fo) ==
    ArrayRoot([i \in 1..Len(heads) |->
                 RawType(heads[i][1], heads[i][2],
                         IF heads[i][2] \in {"document", "object"} THEN fo ELSE None,
                         None, None)])

RawRoots ==
    {RawRoot(heads, fo) :
        heads \in SeqUpTo(RawHeads, MaxRawTypes),
        fo \in FieldsChoices(RawFieldPool, MaxRawFields)}

\* An attribute whose value is a reference to t, as the nested format writes it.
RefDef(t) ==
    NNode(Absent, "objectAttribute", Absent,
          Some(NNode(t, "object", Absent, None, NoOf, None)), NoOf, None)

\* An attribute with the value `value`.
Attr(value) == NNode(Absent, "objectAttribute", Absent, Some(value), NoOf, None)

\* A member of a union or an item of an array that refers to t.
RefItem(t) == NNode(t, "object", Absent, None, NoOf, None)

\* The attribute definitions of the nested files: a reference; a union of two
\* references; a union naming one target twice; an array whose `of` is one
\* reference; an array whose `of` lists two references; a reference that carries
\* another reference among its attributes; an array of arrays of a reference; an
\* object with a reference and an internal reference among its attributes; an
\* inline type; an attribute without `value`.
NestedDefs ==
    {RefDef(b),
     Attr(NNode(Absent, "union", Absent, None, OfArray(<<RefItem(a), RefItem(b)>>), None)),
     Attr(NNode(Absent, "union", Absent, None, OfArray(<<RefItem(b), RefItem(b)>>), None)),
     Attr(NNode(Absent, "array", Absent, None, OfObject(RefItem(b)), None)),
     Attr(NNode(Absent, "array", Absent, None, OfArray(<<RefItem(a), RefItem(b)>>), None)),
     Attr(NNode(a, "object", Absent, None, NoOf, Some(<<<<b, RefDef(b)>>>>))),
     Attr(NNode(Absent, "array", Absent, None,
                OfObject(NNode(Absent, "array", Absent, None, OfObject(RefItem(b)), None)),
                None)),
     Attr(NNode(Absent, "object", Absent, None, NoOf,
                Some(<<<<b, RefDef(b)>>, <<<<"_", "b">>, RefDef(a)>>>>))),
     Attr(NNode(Absent, "inline", b, None, NoOf, None)),
     NNode(Absent, "objectAttribute", Absent, None, NoOf, None)}

\* The root arrays of the nested files: a document a with one attribute, or with
\* an internal attribute before it, and a document b.
NestedRoots ==
    {ArrayRoot(<<RawType(a, "document", None, Some(attrs), None),
                 RawType(b, "document", None, Some(<<>>), None)>>) :
        attrs \in {<<<<bId, d>>>> : d \in NestedDefs}
                  \cup {<<<<<<"_", "b">>, RefDef(b)>>, <<bId, d>>>> : d \in {RefDef(a)}}}
    \cup {ArrayRoot(<<RawType(a, "type", None, None,
                              Some(NNode(Absent, "object", Absent, None, NoOf,
                                         Some(<<<<bId, RefDef(b)>>>>)))),
                      RawType(b, "document", None, Some(<<>>), None)>>),
          ArrayRoot(<<RawType(b, "document", None, Some(<<>>), None),
                      RawType(a, "type", None, None,
                              Some(NNode(Absent, "object", Absent, None, NoOf,
                                         Some(<<<<bId, RefDef(b)>>>>))))>>)}

\* One array that the loosely written files below evaluate to.
SampleRoot == RawRoot(<<<<a, "document">>, <<b, "object">>>>, Some(<<RefTo>>))

\* Files: valid JSON (an array, or something else); text only eval accepts, array
\* shaped; text neither reader accepts, array shaped or not.
Contents ==
    {Content(Some(r), TRUE, Some(r), "", "") : r \in RawRoots \cup NestedRoots}
    \cup {Content(Some(NotAnArray), FALSE, Some(NotAnArray), "", ""),
          Content(None, TRUE, Some(SampleRoot), "Unexpected token n", ""),
          Content(None, TRUE, None, "Unexpected end of input", "x is not defined"),
          Content(None, FALSE, None, "Unexpected token x", "x is not defined"),
          Content(None, FALSE, Some(NotAnArray), "Unexpected token (", ""),
          MissingFile}

\* ------------------------------------------------------------------- state

VARIABLES
    pc,            \* where the run is
    parser,        \* the parser class of the run ("" for a converter used alone)
    content,       \* the text of the schema file
    rawSchema,     \* the root value parseJsonOrJs returned (None before)
    schema,        \* the ParsedSchema (None before there is one)
    nodes,         \* the graph's nodes, in creation order
    edges,         \* the graph's edges, in creation order
    createdEdges,  \* GraphConverter.createdEdges
    ti,            \* first pass of convert(): types handled so far
    k,             \* second pass: calls of processFieldForEdges made so far
    pending,       \* calls of createEdgeIfNotExists the current field still makes
    stream,        \* the calls of createEdgeIfNotExists made so far, in order
    error,         \* the error that ended the run ("" when none)
    output,        \* what was written to the output file (None before)
    run,           \* 1 for the first run on the file, 2 for the second
    first,         \* the outcome of the first run, kept during the second
    trace,         \* the stages of the run so far, in order
    readers,       \* the text readers parseJsonOrJs ran, in order
    message        \* the message of the Error parseJsonOrJs threw (<<>> when none)

vars ==
    <<pc, parser, content, rawSchema, schema, nodes, edges, createdEdges, ti, k,
      pending, stream, error, output, run, first, trace, readers, message>>

readVars == <<readers, message>>

converterVars == <<nodes, edges, createdEdges, ti, k, pending, stream>>

fileVars == <<parser, content, run, first>>

Sch == Get(schema)

\* ----------------------------------------------------------- the run: parsing

\* A run that goes on after parse() threw, as if a schema had been returned.
afterSwallowedError == "parsed"

\* Where a run goes when parse() throws: main's catch reports and exits.
afterParseError == "failed"

\* A root test that lets every value through.
isAnyRoot(root) == TRUE

\* Array.isArray(rawSchema)
isArray(root) == root.isArray

\* A parser table in which every class reads its file.
isAlwaysImplemented(p) == TRUE

\* SanityParser of src/parsers throws before it reads anything.
isImplemented(p) == p # "SanityParser"

\* SanityParser.parse of src/parsers: not implemented.
SanityParserParse ==
    /\ pc = "start"
    /\ ~isImplemented(parser)
    /\ pc' = afterParseError
    /\ error' = "NotImplemented"
    /\ trace' = Append(trace, "parse threw")
    /\ UNCHANGED <<rawSchema, schema, output>>
    /\ UNCHANGED converterVars
    /\ UNCHANGED fileVars
    /\ UNCHANGED readVars

\* parse() of the other parsers, first half: the file is loaded and its text is
\* read into a value.
ParseJsonOrJs ==
    /\ pc = "start"
    /\ isImplemented(parser)
    /\ IF loadFileContent(content) # ""
       THEN /\ pc' = afterParseError
            /\ error' = loadFileContent(content)
            /\ trace' = Append(trace, "parse threw")
            /\ UNCHANGED <<rawSchema, readers, message>>
       ELSE LET r == parseJsonOrJs(content)
            IN  /\ readers' = r.readers
                /\ message' = r.message
                /\ IF r.threw = ""
                   THEN /\ rawSchema' = Some(r.value)
                        /\ pc' = "root"
                        /\ UNCHANGED <<error, trace>>
                   ELSE /\ pc' = afterParseError
                        /\ error' = r.threw
                        /\ trace' = Append(trace, "parse threw")
                        /\ UNCHANGED rawSchema
    /\ UNCHANGED <<schema, output>>
    /\ UNCHANGED converterVars
    /\ UNCHANGED fileVars

\* parse(), second half: a root that is no array is refused; the types are made
\* from an array and createParsedSchema builds the ParsedSchema that is returned.
Normalize(p) ==
    /\ pc = "root"
    /\ parser = p
    /\ IF ~isArray(Get(rawSchema))
       THEN /\ pc' = afterParseError
            /\ error' = "UnrecognizedFormat"
            /\ trace' = Append(trace, "parse threw")
            /\ UNCHANGED schema
       ELSE /\ schema' = Some(createParsedSchema(typesOf(p, Get(rawSchema).items)))
            /\ pc' = "parsed"
            /\ trace' = trace \o <<"createParsedSchema", "parse returned">>
            /\ UNCHANGED error
    /\ UNCHANGED <<rawSchema, output>>
    /\ UNCHANGED converterVars
    /\ UNCHANGED fileVars
    /\ UNCHANGED readVars

\* SchemaClubParser.parse of src/parsers.
SchemaClubParserParse == Normalize("SchemaClubParser")

\* SchemaClubParser.parse of the script.
ScriptSchemaClubParserParse == Normalize("script.SchemaClubParser")

\* SanityParser.parse of the script.
ScriptSanityParserParse == Normalize("script.SanityParser")

\* ------------------------------------------------------- the run: converting

\* A dedup set that outlives the converter that filled it.
keptCreatedEdges == createdEdges

\* this.createdEdges = new Set()
newCreatedEdges == {}

\* new GraphConverter(schema)
NewGraphConverter ==
    /\ pc = "parsed"
    /\ pc' = "constructed"
    /\ createdEdges' = newCreatedEdges
    /\ nodes' = <<>>
    /\ edges' = <<>>
    /\ ti' = 0
    /\ k' = 0
    /\ pending' = <<>>
    /\ stream' = <<>>
    /\ UNCHANGED <<rawSchema, schema, error, output, trace>>
    /\ UNCHANGED fileVars
    /\ UNCHANGED readVars

\* convert() is entered.
Convert ==
    /\ pc = "constructed"
    /\ pc' = "nodes"
    /\ ti' = 0
    /\ k' = 0
    /\ trace' = Append(trace, "convert entered")
    /\ UNCHANGED <<rawSchema, schema, nodes, edges, createdEdges, pending, stream,
                   error, output>>
    /\ UNCHANGED fileVars
    /\ UNCHANGED readVars

\* First pass, one type: createNode for a document or an object.
CreateNode ==
    /\ pc = "nodes"
    /\ ti < Len(Sch.types)
    /\ ti' = ti + 1
    /\ nodes' = IF IsGraphType(Sch.types[ti + 1])
                THEN graphNode(nodes, Node(Sch, Sch.types[ti + 1]))
                ELSE nodes
    /\ UNCHANGED <<pc, rawSchema, schema, edges, createdEdges, k, pending, stream,
                   error, output, trace>>
    /\ UNCHANGED fileVars
    /\ UNCHANGED readVars

\* The first pass is over.
NodesDone ==
    /\ pc = "nodes"
    /\ ti = Len(Sch.types)
    /\ pc' = "edges"
    /\ UNCHANGED <<rawSchema, schema, error, output, trace>>
    /\ UNCHANGED converterVars
    /\ UNCHANGED fileVars
    /\ UNCHANGED readVars

\* Second pass, one named field: processFieldForEdges works out its edges.
ProcessFieldForEdges ==
    /\ pc = "edges"
    /\ pending = <<>>
    /\ k < Len(edgeCalls(Sch))
    /\ LET call == edgeCalls(Sch)[k + 1]
       IN  IF processFieldForEdgesThrows(call.field)
           THEN /\ pc' = "failed"
                /\ error' = "TypeError"
                /\ trace' = Append(trace, "convert threw")
                /\ UNCHANGED <<k, pending>>
           ELSE /\ pending' = processFieldForEdges(Sch, call.sourceNodeId,
                                                   call.sourceFieldId, call.field)
                /\ k' = k + 1
                /\ UNCHANGED <<pc, error, trace>>
    /\ UNCHANGED <<rawSchema, schema, nodes, edges, createdEdges, ti, stream, output>>
    /\ UNCHANGED fileVars
    /\ UNCHANGED readVars

\* createEdgeIfNotExists without `createdEdges.add`: the key is not recorded.
createEdgeUnrecorded(created, es, cand) ==
    LET key == edgeKey(cand.source, cand.target, cand.label)
    IN  IF key \notin created
        THEN [createdEdges |-> created, edges |-> Append(es, Edge(cand))]
        ELSE [createdEdges |-> created, edges |-> es]

\* createEdgeIfNotExists without its `has` test: every call adds an edge.
createEdgeAlways(created, es, cand) ==
    [createdEdges |-> created \cup {edgeKey(cand.source, cand.target, cand.label)},
     edges |-> Append(es, Edge(cand))]

\* GraphConverter.createEdgeIfNotExists: the dedup set and the edge list after the
\* call.
createEdgeIfNotExists(created, es, cand) ==
    LET key == edgeKey(cand.source, cand.target, cand.label)
    IN  IF key \notin created
        THEN [createdEdges |-> created \cup {key}, edges |-> Append(es, Edge(cand))]
        ELSE [createdEdges |-> created, edges |-> es]

\* One call of createEdgeIfNotExists.
CreateEdgeIfNotExists ==
    /\ pc = "edges"
    /\ pending # <<>>
    /\ LET after == createEdgeIfNotExists(createdEdges, edges, Head(pending))
       IN  /\ createdEdges' = after.createdEdges
           /\ edges' = after.edges
    /\ stream' = Append(stream, Head(pending))
    /\ pending' = Tail(pending)
    /\ UNCHANGED <<pc, rawSchema, schema, nodes, ti, k, error, output, trace>>
    /\ UNCHANGED fileVars
    /\ UNCHANGED readVars

\* convert() returns toDot(this.graph).
ReturnDot ==
    /\ pc = "edges"
    /\ pending = <<>>
    /\ k = Len(edgeCalls(Sch))
    /\ pc' = "converted"
    /\ trace' = Append(trace, "convert returned")
    /\ UNCHANGED <<rawSchema, schema, error, output>>
    /\ UNCHANGED converterVars
    /\ UNCHANGED fileVars
    /\ UNCHANGED readVars

\* fs.writeFileSync(options.outputPath, dotString)
WriteOutput ==
    /\ pc = "converted"
    /\ pc' = "done"
    /\ output' = Some([nodes |-> nodes, edges |-> edges])
    /\ trace' = Append(trace, "output written")
    /\ UNCHANGED <<rawSchema, schema, error>>
    /\ UNCHANGED converterVars
    /\ UNCHANGED fileVars
    /\ UNCHANGED readVars

\* The tool is run a second time on the same file with the same parser class:
\* a new parser and a new converter are made.
Rerun ==
    /\ pc \in {"done", "failed"}
    /\ run = 1
    /\ run' = 2
    /\ first' = [output |-> output, error |-> error]
    /\ pc' = "start"
    /\ rawSchema' = None
    /\ schema' = None
    /\ error' = ""
    /\ output' = None
    /\ trace' = <<>>
    /\ readers' = <<>>
    /\ message' = <<>>
    /\ UNCHANGED <<parser, content>>
    /\ UNCHANGED converterVars

NoOutcome == [output |-> None, error |-> ""]

\* A run of the tool on a schema file.
Init ==
    /\ pc = "start"
    /\ parser \in Parsers
    /\ content \in Contents
    /\ rawSchema = None
    /\ schema = None
    /\ nodes = <<>>
    /\ edges = <<>>
    /\ createdEdges = {}
    /\ ti = 0
    /\ k = 0
    /\ pending = <<>>
    /\ stream = <<>>
    /\ error = ""
    /\ output = None
    /\ run = 1
    /\ first = NoOutcome
    /\ trace = <<>>
    /\ readers = <<>>
    /\ message = <<>>

Next ==
    \/ SanityParserParse
    \/ ParseJsonOrJs
    \/ SchemaClubParserParse
    \/ ScriptSchemaClubParserParse
    \/ ScriptSanityParserParse
    \/ NewGraphConverter
    \/ Convert
    \/ CreateNode
    \/ NodesDone
    \/ ProcessFieldForEdges
    \/ CreateEdgeIfNotExists
    \/ ReturnDot
    \/ WriteOutput
    \/ Rerun

Spec == Init /\ [][Next]_vars

\* A converter given a ParsedSchema directly.
InitConvert ==
    /\ pc = "parsed"
    /\ parser = ""
    /\ content = Content(None, FALSE, None, "", "")
    /\ rawSchema = None
    /\ schema \in {Some(sc) : sc \in Schemas}
    /\ nodes = <<>>
    /\ edges = <<>>
    /\ createdEdges = {}
    /\ ti = 0
    /\ k = 0
    /\ pending = <<>>
    /\ stream = <<>>
    /\ error = ""
    /\ output = None
    /\ run = 1
    /\ first = NoOutcome
    /\ trace = <<"parse returned">>
    /\ readers = <<>>
    /\ message = <<>>

NextConvert ==
    \/ NewGraphConverter
    \/ Convert
    \/ CreateNode
    \/ NodesDone
    \/ ProcessFieldForEdges
    \/ CreateEdgeIfNotExists
    \/ ReturnDot

SpecConvert == InitConvert /\ [][NextConvert]_vars

\* The calls of convert() entered so far.
converts == Cardinality({i \in 1..Len(trace) : trace[i] = "convert entered"})

\* A convert() that starts with an empty dedup set.
createdEdgesCleared(created) == {}

\* The dedup set a further call of convert() starts with: convert() does not
\* touch it, and the graph is the one initializeGraph made in the constructor.
createdEdgesOnConvert(created) == created

\* convert() is called again on the converter, after it returned.
ConvertAgain ==
    /\ pc = "converted"
    /\ converts < MaxConverts
    /\ pc' = "nodes"
    /\ ti' = 0
    /\ k' = 0
    /\ createdEdges' = createdEdgesOnConvert(createdEdges)
    /\ trace' = Append(trace, "convert entered")
    /\ UNCHANGED <<rawSchema, schema, nodes, edges, pending, stream, error, output>>
    /\ UNCHANGED fileVars
    /\ UNCHANGED readVars

NextReconvert ==
    \/ NextConvert
    \/ ConvertAgain

\* A converter given a ParsedSchema directly, whose convert() may be called again.
SpecReconvert == InitConvert /\ [][NextReconvert]_vars

\* ---------------------------------------------------------------- properties

\* The (source, target, displayLabel) triple of an edge or of a candidate.
Triple(e) == <<e.source, e.target, e.label>>

\* The categories that become nodes, as the specification names them.
GraphCategories == {"document", "object"}

\* The names of the schema's types of a graph category.
GraphTypeNames ==
    {Sch.types[i].name : i \in {j \in 1..Len(Sch.types) : Sch.types[j].type \in GraphCategories}}

NodeIds == {nodes[i].id : i \in 1..Len(nodes)}

\* C1: no duplicate edges. In every state of a conversion, after any number of
\* calls of createEdgeIfNotExists, no two edges of the graph have the same
\* (source, target, displayLabel).
C1_NoDuplicateEdges ==
    \A i, j \in 1..Len(edges) : i # j => Triple(edges[i]) # Triple(edges[j])

\* C1 happens: a call whose triple an earlier call already had has been handled.
C1_Witness ==
    /\ pc = "edges"
    /\ \E i, j \in 1..Len(stream) : i < j /\ Triple(stream[i]) = Triple(stream[j])

\* C2: category filter. The source and the target of every edge are names of
\* document/object types of the schema, and nodes of the graph; no edge touches a
\* type of another category or a name that is not in the schema.
C2_CategoryFilter ==
    \A i \in 1..Len(edges) :
        /\ edges[i].source \in GraphTypeNames
        /\ edges[i].target \in GraphTypeNames
        /\ edges[i].source \in NodeIds
        /\ edges[i].target \in NodeIds

\* C2 happens: a schema with a type of another category, a repeated type name and
\* a field with an unknown target has been converted, and has edges.
C2_Witness ==
    /\ pc = "converted"
    /\ Len(edges) > 0
    /\ \E i \in 1..Len(Sch.types) : Sch.types[i].type \notin GraphCategories
    /\ \E i, j \in 1..Len(Sch.types) : i # j /\ Sch.types[i].name = Sch.types[j].name
    /\ \E n \in 1..Len(edgeCalls(Sch)) : edgeCalls(Sch)[n].field = RefTo

\* C6: internal-field exclusion in nodes. No row of any node carries a field name
\* that begins with `_`.
C6_NoInternalFieldInNodes ==
    \A i \in 1..Len(nodes) : \A j \in 1..Len(nodes[i].fields) :
        nodes[i].fields[j].name[1] # "_"

\* C6 happens: a node was created for a type that has an internal field and
\* another field, and shows the other one.
C6_Witness ==
    /\ pc = "converted"
    /\ \E i \in 1..Len(Sch.types) :
          /\ Sch.types[i].type \in GraphCategories
          /\ IsPresent(Sch.types[i].fields)
          /\ Internal \in Range(Get(Sch.types[i].fields))
          /\ \E n \in 1..Len(nodes) :
                nodes[n].id = Sch.types[i].name /\ Len(nodes[n].fields) = 1

\* C8: nodes. Once the first pass of convert() is over, each document/object type
\* has exactly one node, whose id is the type's name, and every node belongs to
\* such a type: a type of another category has none, referenced or not.
C8_OneNodePerGraphType ==
    pc \in {"edges", "converted"} =>
        /\ \A name \in GraphTypeNames :
              Cardinality({i \in 1..Len(nodes) : nodes[i].id = name}) = 1
        /\ NodeIds \subseteq GraphTypeNames
        /\ Len(nodes) = Cardinality(GraphTypeNames)

\* C8 happens: the converted schema has a `string` type named b that a reference
\* of a document names as its target, and a document that got its node.
C8_Witness ==
    /\ pc = "converted"
    /\ Len(nodes) = 1
    /\ \E i \in 1..Len(Sch.types) : Sch.types[i] = Type(b, "string", None)
    /\ \E n \in 1..Len(edgeCalls(Sch)) : edgeCalls(Sch)[n].field = RefTo


Unresolvable(field) ==
    \/ /\ field.type = "reference"
       /\ IsPresent(field.to)
       /\ Len(Get(field.to)) > 0
       /\ Range(Get(field.to)) \cap GraphTypeNames = {}
    \/ /\ field.type = "reference"
       /\ ~IsPresent(field.to) \/ Len(Get(field.to)) = 0
       /\ field.name \notin GraphTypeNames
       /\ field.title = Absent \/ toLowerCase(field.title) \notin GraphTypeNames
       /\ cleanName(field.name) \notin GraphTypeNames
    \/ /\ field.type = "array"
       /\ ~IsPresent(field.of)

\* C4: resolution never raises. Every call of processFieldForEdges returns and
\* the second pass goes on to the next field; an unresolvable field makes no call
\* of createEdgeIfNotExists.
C4_ResolutionNeverRaises ==
    [][(pc = "edges" /\ pending = <<>> /\ k < Len(edgeCalls(Sch))) =>
          /\ pc' = "edges"
          /\ k' = k + 1
          /\ error' = ""
          /\ Unresolvable(edgeCalls(Sch)[k + 1].field) => pending' = <<>>]_vars

\* C4 happens: an unresolvable field was handled, a later field was resolved, and
\* the conversion returned with edges.
C4_Witness ==
    /\ pc = "converted"
    /\ Len(edges) > 0
    /\ \E i, j \in 1..Len(edgeCalls(Sch)) :
          /\ i < j
          /\ Unresolvable(edgeCalls(Sch)[i].field)
          /\ ~Unresolvable(edgeCalls(Sch)[j].field)

\* C5: type-name uniqueness. In every ParsedSchema a parser returns no two
\* entries of `types` have the same name.
C5_TypeNamesUnique ==
    IsPresent(schema) =>
        \A i, j \in 1..Len(Sch.types) : i # j => Sch.types[i].name # Sch.types[j].name

\* C7: internal-field exclusion in the canonical model. No ParsedSchema a parser
\* returns has a field whose name begins with `_`.
C7_NoInternalFieldInSchema ==
    IsPresent(schema) =>
        \A i \in 1..Len(Sch.types) :
            IsPresent(Sch.types[i].fields) =>
                \A j \in 1..Len(Get(Sch.types[i].fields)) :
                    LET name == Get(Sch.types[i].fields)[j].name
                    IN  name = Absent \/ name[1] # "_"

\* The places of a stage in the trace of the run.
At(stage) == {i \in 1..Len(trace) : trace[i] = stage}

\* C9: abort ordering. convert() is entered only after parse() returned, the
\* output is written only after convert() returned, and a run whose parse()
\* threw neither enters convert() nor writes an output.
C9_AbortOrdering ==
    /\ \A i \in At("convert entered") : \E j \in At("parse returned") : j < i
    /\ \A i \in At("output written") : \E j \in At("convert returned") : j < i
    /\ IsPresent(output) => At("output written") # {}
    /\ At("parse threw") # {} =>
          /\ At("convert entered") = {}
          /\ At("output written") = {}
          /\ output = None
          /\ pc = "failed"

\* C9 happens: a run went through parse() and convert() and wrote its output.
C9_Witness ==
    /\ pc = "done"
    /\ IsPresent(output)
    /\ Len(Get(output).nodes) > 0
    /\ trace[Len(trace)] = "output written"

\* C10: unrecognized format. Once parse() has looked at a root that is no array,
\* the run has failed with the unrecognized-format error, createParsedSchema was
\* not called and there is no ParsedSchema.
C10_UnrecognizedFormat ==
    IsPresent(rawSchema) /\ ~Get(rawSchema).isArray /\ pc # "root" =>
        /\ pc = "failed"
        /\ error = "UnrecognizedFormat"
        /\ At("createParsedSchema") = {}
        /\ schema = None

\* C10 happens: a text was read into a value that is no array and parse() threw.
C10_Witness ==
    /\ IsPresent(rawSchema)
    /\ ~Get(rawSchema).isArray
    /\ error = "UnrecognizedFormat"
    /\ trace = <<"parse threw">>


\* C11: parse failure. JSON.parse is the first reader run; eval is run only on a
\* text JSON.parse refused and that starts with `[` and ends with `]`; when eval
\* is not run or throws too, the run fails with the parse-failure error whose
\* message carries the message of JSON.parse's error; when JSON.parse returns,
\* eval is not run.
C11_ParseFailure ==
    readers # <<>> =>
        /\ readers[1] = "JSON.parse"
        /\ "eval" \in Range(readers) => ~IsPresent(content.strict) /\ content.bracketed
        /\ IsPresent(content.strict) => readers = <<"JSON.parse">> /\ error # "ParseFailure"
        /\ (~IsPresent(content.strict) /\ content.bracketed) => "eval" \in Range(readers)
        /\ (~IsPresent(content.strict)
              /\ (~content.bracketed \/ ~IsPresent(content.literal))) =>
              /\ pc = "failed"
              /\ error = "ParseFailure"
              /\ message = <<"Failed to parse schema file: ", content.jsonError>>
              /\ content.jsonError # ""
              /\ rawSchema = None
              /\ schema = None

\* C11 happens: a text that eval accepts but that is not array shaped was refused
\* after JSON.parse alone.
C11_Witness ==
    /\ error = "ParseFailure"
    /\ readers = <<"JSON.parse">>
    /\ IsPresent(content.literal)
    /\ ~content.bracketed

\* C12: not implemented. A run with the unimplemented parser fails with the
\* not-implemented error whatever the file is (valid, invalid or missing): no
\* file is loaded, no reader is run, no types are made and no ParsedSchema is
\* returned.
C12_NotImplemented ==
    parser = "SanityParser" =>
        /\ pc \in {"start", "failed"}
        /\ pc = "failed" => error = "NotImplemented"
        /\ readers = <<>>
        /\ rawSchema = None
        /\ schema = None
        /\ output = None
        /\ At("createParsedSchema") = {}
        /\ At("parse returned") = {}

\* C12 happens: the unimplemented parser has thrown on a missing file.
C12_Witness ==
    /\ parser = "SanityParser"
    /\ content = MissingFile
    /\ pc = "failed"
    /\ trace = <<"parse threw">>

\* The name and the type marker of each entry of a list, in order.
Heads(entries) == [i \in 1..Len(entries) |-> <<entries[i].name, entries[i].type>>]

\* C13: tolerant skipping. The types of the ParsedSchema a parser returns are the
\* entries of the root array that have a name and a type marker, in input order;
\* an entry without one of them is in none of types, allTypeNames, documentTypes.
C13_TolerantSkipping ==
    IsPresent(schema) /\ IsPresent(rawSchema) =>
        /\ Heads(Sch.types) =
              SelectSeq(Heads(Get(rawSchema).items),
                        LAMBDA h : h[1] # Absent /\ h[2] # "undefined")
        /\ Absent \notin Sch.allTypeNames
        /\ Absent \notin Sch.documentTypes

\* The entries of the root array.
RawItems == Get(rawSchema).items

\* No two entries of the root array have the same name.
RawNamesDistinct ==
    \A i, j \in 1..Len(RawItems) : i # j => RawItems[i].name # RawItems[j].name

\* The edges from `source` to `target` that carry `label`.
EdgesWith(source, target, label) ==
    {i \in 1..Len(edges) :
        edges[i].source = source /\ edges[i].target = target /\ edges[i].label = label}

\* Field f of entry t of the file is a reference without targets whose name,
\* a trailing ref/id/_ref/_id taken off, is the name of the document entry T.
InfersBySuffix(t, f, T) ==
    /\ t.name # Absent
    /\ t.type \in GraphCategories
    /\ f.name # Absent
    /\ f.name[1] # "_"
    /\ f.type = "reference"
    /\ ~IsPresent(f.to)
    /\ cleanName(f.name) # f.name
    /\ T.name = cleanName(f.name)
    /\ T.type = "document"

\* C14: inferred reference end to end. After a file went through a schema.club
\* parser and convert(), a reference field without targets whose suffix-stripped
\* name is the name of a document type T has exactly one edge from its type to T,
\* labelled with the field name and `?`, of the inferred-reference kind, and no
\* direct-reference edge.
C14_InferredEndToEnd ==
    (/\ pc \in {"converted", "done"}
     /\ parser \in {"SchemaClubParser", "script.SchemaClubParser"}
     /\ RawNamesDistinct) =>
        \A i, j \in 1..Len(RawItems) :
            IsPresent(RawItems[i].fields) =>
                \A n \in 1..Len(Get(RawItems[i].fields)) :
                    LET t == RawItems[i]
                        f == Get(t.fields)[n]
                        T == RawItems[j]
                    IN  InfersBySuffix(t, f, T) =>
                          /\ Cardinality(EdgesWith(t.name, T.name, f.name \o <<"?">>)) = 1
                          /\ \A e \in EdgesWith(t.name, T.name, f.name \o <<"?">>) :
                                edges[e].kind = "INFERRED_REFERENCE"
                          /\ \A e \in 1..Len(edges) :
                                (edges[e].source = t.name /\ edges[e].target = T.name)
                                    => edges[e].kind # "DIRECT_REFERENCE"

\* C15: no collapse of inferred and explicit edges. When a field of a type
\* proposes a direct-reference edge to T and another field of the type an
\* inferred-reference edge to T, the two have different labels and both are in
\* the graph.
C15_NoCollapse ==
    pc = "converted" =>
        \A x, y \in 1..Len(stream) :
            (/\ stream[x].kind = "DIRECT_REFERENCE"
             /\ stream[y].kind = "INFERRED_REFERENCE"
             /\ stream[x].source = stream[y].source
             /\ stream[x].target = stream[y].target) =>
                /\ stream[x].label # stream[y].label
                /\ \E e1, e2 \in 1..Len(edges) :
                      /\ edges[e1] = Edge(stream[x])
                      /\ edges[e2] = Edge(stream[y])

\* No two types of the schema have the same name.
NamesDistinct ==
    \A i, j \in 1..Len(Sch.types) : i # j => Sch.types[i].name # Sch.types[j].name

\* What a call of createEdgeIfNotExists proposes: source, target, label, kind.
Proposal(cand) == <<cand.source, cand.target, cand.label, cand.kind>>

Proposals(cands) == [i \in 1..Len(cands) |-> Proposal(cands[i])]

\* processFieldForEdges is about to be called for the next named field.
AtCall == pc = "edges" /\ pending = <<>> /\ k < Len(edgeCalls(Sch))

NextCall == edgeCalls(Sch)[k + 1]

\* C16: rule 1, explicit targets. For a top-level reference with a non-empty
\* target list processFieldForEdges proposes, in listed order, one
\* direct-reference edge labelled with the bare field name for each listed target
\* that is the name of a document/object type, and nothing else: no inferred edge,
\* also when no target qualifies.
C16_ExplicitTargets ==
    [][(/\ AtCall
        /\ NamesDistinct
        /\ NextCall.field.type = "reference"
        /\ IsPresent(NextCall.field.to)
        /\ Len(Get(NextCall.field.to)) > 0) =>
            Proposals(pending') =
                LET ok == SelectSeq(Get(NextCall.field.to),
                                    LAMBDA t : t \in GraphTypeNames)
                IN  [i \in 1..Len(ok) |->
                        <<NextCall.sourceNodeId, ok[i], NextCall.field.name,
                          "DIRECT_REFERENCE">>]]_vars

\* C16 happens: a reference listing a document/object type twice and an unknown
\* name once has proposed its two edges.
C16_Witness ==
    /\ pc = "edges"
    /\ k > 0
    /\ NamesDistinct
    /\ edgeCalls(Sch)[k].field = RefTo
    /\ Len(pending) = 2

\* C17: rule 2, no explicit targets. For a top-level reference whose target list
\* is absent or empty processFieldForEdges proposes one inferred-reference edge,
\* labelled with the field name and `?`, per target findPossibleReferenceTargets
\* returns for the field's name and title, and no direct-reference edge.
C17_NoExplicitTargets ==
    [][(/\ AtCall
        /\ NextCall.field.type = "reference"
        /\ ~IsPresent(NextCall.field.to) \/ Len(Get(NextCall.field.to)) = 0) =>
            Proposals(pending') =
                LET ts == findPossibleReferenceTargets(Sch, NextCall.field.name,
                                                       NextCall.field.title)
                IN  [i \in 1..Len(ts) |->
                        <<NextCall.sourceNodeId, ts[i], NextCall.field.name \o <<"?">>,
                          "INFERRED_REFERENCE">>]]_vars

\* C17 happens: a reference with an empty target list has proposed an inferred
\* edge for its name and one for its title.
C17_Witness ==
    /\ pc = "edges"
    /\ k > 0
    /\ edgeCalls(Sch)[k].field = RefEmpty
    /\ Len(pending) = 2
    /\ \A i \in 1..2 : pending[i].kind = "INFERRED_REFERENCE"

\* C18: rule 3, object composition. A top-level object field proposes an edge
\* exactly when a type of category `object` has the field's name: then one
\* object-composition edge to it, labelled with the bare field name; a type of
\* that name of another category gives nothing.
C18_ObjectComposition ==
    [][(AtCall /\ NextCall.field.type = "object") =>
            Proposals(pending') =
                IF \E i \in 1..Len(Sch.types) :
                      Sch.types[i].name = NextCall.field.name /\ Sch.types[i].type = "object"
                THEN <<<<NextCall.sourceNodeId, NextCall.field.name, NextCall.field.name,
                         "OBJECT_COMPOSITION">>>>
                ELSE <<>>]_vars

\* C18 happens: an object field named like a document type was handled, without
\* an edge, and the conversion went on.
C18_Witness ==
    /\ pc = "edges"
    /\ k > 0
    /\ edgeCalls(Sch)[k].field = Obj
    /\ pending = <<>>
    /\ \E i \in 1..Len(Sch.types) : Sch.types[i] = Type(b, "document", Some(<<Obj>>))
    /\ \A i \in 1..Len(Sch.types) : Sch.types[i].type # "object"

\* The kinds and the label an edge of an array field may have.
ArrayKinds == {"ARRAY_REFERENCE", "INFERRED_ARRAY_REFERENCE", "ARRAY_COMPOSITION"}

\* What one item descriptor of the array field `name` of `source` must propose.
ItemProposals(source, name, item) ==
    LET arr == name \o <<"[", "]">>
        listed == IF IsPresent(item.to) THEN Get(item.to) ELSE <<>>
        ok == SelectSeq(listed, LAMBDA t : t \in GraphTypeNames)
        ts == findPossibleReferenceTargets(Sch, name, item.title)
    IN  (IF item.type # "reference" THEN <<>>
         ELSE IF Len(listed) > 0
         THEN [i \in 1..Len(ok) |-> <<source, ok[i], arr, "ARRAY_REFERENCE">>]
         ELSE [i \in 1..Len(ts) |->
                 <<source, ts[i], arr \o <<"?">>, "INFERRED_ARRAY_REFERENCE">>])
        \o (IF /\ item.type = "object"
               /\ item.name # Absent
               /\ \E i \in 1..Len(Sch.types) :
                     Sch.types[i].name = item.name /\ Sch.types[i].type = "object"
            THEN <<<<source, item.name, arr, "ARRAY_COMPOSITION">>>>
            ELSE <<>>)

\* C19: rule 4, arrays. For an array field every item descriptor of its item list
\* is resolved, in order; every edge proposed has an array kind and the label of
\* the array field's name followed by `[]`, and by `?` exactly for the inferred
\* kind: never a direct-reference, inferred-reference or object-composition edge,
\* never a label without `[]`.
C19_Arrays ==
    [][(/\ AtCall
        /\ NamesDistinct
        /\ NextCall.field.type = "array"
        /\ IsPresent(NextCall.field.of)) =>
            /\ Proposals(pending') =
                  Concat([i \in 1..Len(Get(NextCall.field.of)) |->
                            ItemProposals(NextCall.sourceNodeId, NextCall.field.name,
                                          Get(NextCall.field.of)[i])])
            /\ \A i \in 1..Len(pending') :
                  /\ pending'[i].kind \in ArrayKinds
                  /\ pending'[i].label =
                        NextCall.field.name \o <<"[", "]">>
                        \o (IF pending'[i].kind = "INFERRED_ARRAY_REFERENCE"
                            THEN <<"?">> ELSE <<>>)]_vars

\* C19 happens: an array of a reference, an object and a reference without
\* targets has proposed an edge of each array kind.
C19_Witness ==
    /\ pc = "edges"
    /\ k > 0
    /\ edgeCalls(Sch)[k].field = Arr
    /\ {pending[i].kind : i \in 1..Len(pending)} = ArrayKinds

RECURSIVE FirstSeen(_, _)
\* The candidates of a sequence whose (source, target, label) no earlier one had,
\* `seen` being the triples passed so far.
FirstSeen(cands, seen) ==
    IF cands = <<>> THEN <<>>
    ELSE IF Triple(Head(cands)) \in seen THEN FirstSeen(Tail(cands), seen)
    ELSE <<Head(cands)>> \o FirstSeen(Tail(cands), seen \cup {Triple(Head(cands))})

\* C20: first seen wins, in iteration order. The calls of createEdgeIfNotExists
\* come in the order of the types, their fields, the items and the targets; the
\* edges are those calls with every one whose (source, target, label) was seen
\* before left out, each edge keeping the kind of the first call with its triple.
C20_FirstSeenWins ==
    /\ pc = "converted" =>
          stream = Concat([n \in 1..Len(edgeCalls(Sch)) |->
                             processFieldForEdges(Sch, edgeCalls(Sch)[n].sourceNodeId,
                                                  edgeCalls(Sch)[n].sourceFieldId,
                                                  edgeCalls(Sch)[n].field)])
    /\ LET kept == FirstSeen(stream, {})
       IN  edges = [i \in 1..Len(kept) |-> Edge(kept[i])]

\* The parsers of the default (schema.club) dialect.
SchemaClubParsers == {"SchemaClubParser", "script.SchemaClubParser"}

\* Every entry of the root array has a name and a type marker.
RawHeadsComplete ==
    \A i \in 1..Len(RawItems) : RawItems[i].name # Absent /\ RawItems[i].type # "undefined"

\* The fields of a list that have a name and a type marker, in order.
NamedFields(fo) ==
    IF IsPresent(fo)
    THEN SelectSeq(Get(fo), LAMBDA f : f.name # Absent /\ f.type # "undefined")
    ELSE <<>>

\* C21: the default dialect keeps explicit targets. In the ParsedSchema a
\* schema.club parser returns, the named fields of a type are those of its entry,
\* and a reference that lists targets in the file has exactly those targets, in
\* the same order: none is replaced by an inferred one.
C21_KeepsExplicitTargets ==
    (/\ IsPresent(schema)
     /\ IsPresent(rawSchema)
     /\ parser \in SchemaClubParsers
     /\ RawHeadsComplete) =>
        \A i \in 1..Len(RawItems) :
            LET rf == NamedFields(RawItems[i].fields)
                sf == NamedFields(Sch.types[i].fields)
            IN  /\ Len(sf) = Len(rf)
                /\ \A n \in 1..Len(rf) :
                      (/\ rf[n].type = "reference"
                       /\ IsPresent(rf[n].to)
                       /\ Len(Get(rf[n].to)) > 0) =>
                          /\ sf[n].name = rf[n].name
                          /\ sf[n].to = rf[n].to

\* C22: the default dialect infers with the resolver's heuristic. For a reference
\* without explicit targets in the file, every target the schema.club parser
\* attaches to the field is one findPossibleReferenceTargets returns for the
\* field's name and title on the returned schema, and the parser attaches none
\* when that list is empty.
C22_InfersWithResolverHeuristic ==
    (/\ IsPresent(schema)
     /\ IsPresent(rawSchema)
     /\ parser \in SchemaClubParsers
     /\ RawHeadsComplete) =>
        \A i \in 1..Len(RawItems) :
            LET rf == NamedFields(RawItems[i].fields)
                sf == NamedFields(Sch.types[i].fields)
            IN  \A n \in 1..Len(rf) :
                    (/\ n <= Len(sf)
                     /\ rf[n].type = "reference"
                     /\ ~IsPresent(rf[n].to) \/ Len(Get(rf[n].to)) = 0) =>
                        LET attached == IF IsPresent(sf[n].to) THEN Range(Get(sf[n].to)) ELSE {}
                        IN  attached \subseteq
                                Range(findPossibleReferenceTargets(Sch, rf[n].name, rf[n].title))

RECURSIVE AllTargets(_)
\* Every reference target marked anywhere in the subtree of a node of a nested
\* file: on the node, under its `value`, in its `of`, among its attributes.
AllTargets(node) ==
    (IF node.dereferencesTo # Absent THEN {node.dereferencesTo} ELSE {})
    \cup (IF IsPresent(node.value) THEN AllTargets(Get(node.value)) ELSE {})
    \cup UNION {AllTargets(node.of.items[i]) : i \in 1..Len(node.of.items)}
    \cup (IF IsPresent(node.attributes)
          THEN UNION {AllTargets(Get(node.attributes)[i][2]) :
                        i \in 1..Len(Get(node.attributes))}
          ELSE {})

RECURSIVE FieldTargets(_)
\* Every target a normalized field carries: in its own list, in the lists of its
\* items and of its children.
FieldTargets(field) ==
    (IF IsPresent(field.to) THEN Range(Get(field.to)) ELSE {})
    \cup (IF IsPresent(field.of)
          THEN UNION {FieldTargets(Get(field.of)[i]) : i \in 1..Len(Get(field.of))}
          ELSE {})
    \cup (IF IsPresent(field.fields)
          THEN UNION {FieldTargets(Get(field.fields)[i]) : i \in 1..Len(Get(field.fields))}
          ELSE {})

\* The attributes of an entry of a nested file that become fields: those with a
\* `value` whose key does not begin with `_`.
FieldAttributes(entry) ==
    IF IsPresent(entry.attributes)
    THEN SelectSeq(Get(entry.attributes),
                   LAMBDA kv : kv[1][1] # "_" /\ IsPresent(kv[2].value))
    ELSE <<>>

\* C23: the nested dialect collects all targets. In the ParsedSchema the parser
\* of the nested dialect returns for a file of entries with `attributes`, each
\* attribute's field carries every reference target marked anywhere in the
\* attribute's definition (in the field's list, or in those of its items or
\* children), and no list of the field names a target twice.
C23_CollectsAllTargets ==
    (/\ IsPresent(schema)
     /\ IsPresent(rawSchema)
     /\ parser = "script.SanityParser"
     /\ RawHeadsComplete
     /\ \A i \in 1..Len(RawItems) : IsPresent(RawItems[i].attributes)) =>
        \A i \in 1..Len(RawItems) :
            LET attrs == FieldAttributes(RawItems[i])
                sf == IF IsPresent(Sch.types[i].fields) THEN Get(Sch.types[i].fields)
                      ELSE <<>>
            IN  /\ Len(sf) = Len(attrs)
                /\ \A n \in 1..Len(attrs) :
                      /\ sf[n].name = attrs[n][1]
                      /\ AllTargets(attrs[n][2]) \subseteq FieldTargets(sf[n])
                      /\ IsPresent(sf[n].to) =>
                            Cardinality(Range(Get(sf[n].to))) = Len(Get(sf[n].to))

\* The calls of processFieldForEdges made so far for a reference whose target
\* list is absent or empty: those that went to findPossibleReferenceTargets.
InferenceCalls ==
    {n \in 1..k :
        /\ edgeCalls(Sch)[n].field.type = "reference"
        /\ ~IsPresent(edgeCalls(Sch)[n].field.to)
              \/ Len(Get(edgeCalls(Sch)[n].field.to)) = 0}

\* What findPossibleReferenceTargets returned in call n.
Inferred(n) ==
    findPossibleReferenceTargets(Sch, edgeCalls(Sch)[n].sourceFieldId,
                                 edgeCalls(Sch)[n].field.title)

\* C24: the inference list is deduplicated. No list findPossibleReferenceTargets
\* returned names a type twice, also when the field's name, its title and its
\* suffix-stripped name denote the same type.
C24_InferenceDeduplicated ==
    pc \in {"edges", "converted"} =>
        \A n \in InferenceCalls :
            \A i, j \in 1..Len(Inferred(n)) : i # j => Inferred(n)[i] # Inferred(n)[j]

\* A title, lower-cased and without its white space.
NormalizedTitle(title) ==
    LET lower == toLowerCase(title)
        idx == {i \in 1..Len(lower) : lower[i] \notin {" ", "\t", "\n"}}
        nth[i \in 0..Len(lower)] ==
            IF i = 0 THEN 0 ELSE Min({j \in idx : j > nth[i - 1]} \cup {Len(lower) + 1})
    IN  [i \in 1..Cardinality(idx) |-> lower[nth[i]]]

\* C25: the title candidate. The list findPossibleReferenceTargets returns is the
\* field's name if it is a document/object type, then the field's title,
\* lower-cased and with all white space removed, if that is one, then the
\* suffix-stripped name if it differs from the name and is one.
C25_TitleCandidate ==
    (pc \in {"edges", "converted"} /\ NamesDistinct) =>
        \A n \in InferenceCalls :
            LET name == edgeCalls(Sch)[n].field.name
                title == edgeCalls(Sch)[n].field.title
            IN  Inferred(n) =
                    (IF name \in GraphTypeNames THEN <<name>> ELSE <<>>)
                    \o (IF title # Absent /\ NormalizedTitle(title) \in GraphTypeNames
                        THEN <<NormalizedTitle(title)>> ELSE <<>>)
                    \o (IF cleanName(name) # name /\ cleanName(name) \in GraphTypeNames
                        THEN <<cleanName(name)>> ELSE <<>>)

\* The west side of the left cell of a row of a node's table.
RowAnchor(row) == row.name \o <<"_", "l", "e", "f", "t", ":", "w">>

\* C26: edge anchors. Every edge of the graph enters the title port of its target
\* and leaves the west side of the left cell of a row of its source node: the
\* field it comes from is one of the rows the source node shows.
C26_EdgeAnchors ==
    \A e \in 1..Len(edges) :
        /\ edges[e].targetPort = <<"t", "i", "t", "l", "e">>
        /\ \E n \in 1..Len(nodes) :
              /\ nodes[n].id = edges[e].source
              /\ \E r \in 1..Len(nodes[n].fields) :
                    RowAnchor(nodes[n].fields[r]) = edges[e].sourcePort

\* The dedup keys of the edges of the graph.
EdgeKeys(es) == {edgeKey(es[i].source, es[i].target, es[i].label) : i \in 1..Len(es)}

\* C27: the dedup set mirrors the graph. In every state of a converter
\* createdEdges is the set of the keys of the graph's edges; a step adds a key
\* exactly when it adds an edge, and no step removes a key or an edge.
C27_DedupSetMirrorsGraph ==
    /\ [](createdEdges = EdgeKeys(edges))
    /\ [][/\ createdEdges \subseteq createdEdges'
          /\ Len(edges) <= Len(edges')
          /\ SubSeq(edges', 1, Len(edges)) = edges
          /\ (createdEdges' # createdEdges) <=> (edges' # edges)
          /\ Cardinality(createdEdges') - Cardinality(createdEdges)
                = Len(edges') - Len(edges)]_vars

\* C27 happens: in a second call of convert() a candidate was refused because its
\* key was in the set, the graph having edges.
C27_Witness ==
    /\ pc = "edges"
    /\ converts = 2
    /\ Len(edges) > 0
    /\ Len(stream) > Len(edges)
    /\ createdEdges # {}

\* C28: the key encoding is injective. Two calls of createEdgeIfNotExists whose
\* (source, target, label) differ have different keys, so the triple of every
\* call made is the triple of an edge of the graph: a call is refused only when
\* an edge with its triple is there.
C28_KeyInjective ==
    /\ \A x, y \in 1..Len(stream) :
          Triple(stream[x]) # Triple(stream[y]) =>
              edgeKey(stream[x].source, stream[x].target, stream[x].label)
                  # edgeKey(stream[y].source, stream[y].target, stream[y].label)
    /\ \A x \in 1..Len(stream) :
          \E e \in 1..Len(edges) : Triple(edges[e]) = Triple(stream[x])

\* C29: convert() is idempotent on one converter. During a second call of
\* convert() on a converter no edge is added, the key of every candidate being in
\* createdEdges, and no node is added: the node identifiers, the nodes and the
\* edge sequence stay those the first call left.
C29_ConvertIdempotent ==
    [][converts' = 2 =>
          /\ edges' = edges
          /\ createdEdges' = createdEdges
          /\ NodeIds' = NodeIds
          /\ Len(nodes') = Len(nodes)
          /\ \A i \in 1..Len(pending') :
                edgeKey(pending'[i].source, pending'[i].target, pending'[i].label)
                    \in createdEdges]_vars

\* C29 happens: a second call of convert() on a converter whose graph has nodes
\* and edges has gone through all its candidates and returned.
C29_Witness ==
    /\ pc = "converted"
    /\ converts = 2
    /\ Len(nodes) > 0
    /\ Len(edges) > 0
    /\ Len(stream) >= 2 * Len(edges)

\* The targets a reference descriptor can yield for the field `name`: the listed
\* ones, or the inferred ones when none is listed.
OwnTargets(name, d) ==
    IF d.type # "reference" THEN {}
    ELSE IF IsPresent(d.to) /\ Len(Get(d.to)) > 0 THEN Range(Get(d.to))
    ELSE Range(findPossibleReferenceTargets(Sch, name, d.title))

\* The targets a top-level field can yield by itself or by the item descriptors
\* listed directly in it: nothing of its children, nothing of the items of an
\* item.
DirectTargets(f) ==
    OwnTargets(f.name, f)
    \cup (IF f.type = "object" THEN {f.name} ELSE {})
    \cup (IF f.type = "array" /\ IsPresent(f.of)
          THEN UNION {OwnTargets(f.name, Get(f.of)[i])
                         \cup (IF Get(f.of)[i].type = "object"
                               THEN {Get(f.of)[i].name} ELSE {}) :
                      i \in 1..Len(Get(f.of))}
          ELSE {})

\* C30: resolution depth. Every call of createEdgeIfNotExists comes from a named
\* top-level field of its source type, is anchored at that field and labelled
\* with its name, and goes to a target of the field itself or of an item listed
\* directly in it: the children of an object field, the items of an array item
\* and a field without a name yield none.
C30_ResolutionDepth ==
    \A x \in 1..Len(stream) :
        \E i \in 1..Len(Sch.types) :
            /\ Sch.types[i].name = stream[x].source
            /\ Sch.types[i].type \in GraphCategories
            /\ IsPresent(Sch.types[i].fields)
            /\ \E n \in 1..Len(Get(Sch.types[i].fields)) :
                  LET f == Get(Sch.types[i].fields)[n]
                  IN  /\ f.name # Absent
                      /\ stream[x].port = f.name \o <<"_", "l", "e", "f", "t", ":", "w">>
                      /\ stream[x].label \in
                            {f.name, f.name \o <<"?">>, f.name \o <<"[", "]">>,
                             f.name \o <<"[", "]", "?">>}
                      /\ stream[x].target \in DirectTargets(f)

\* C30 happens: a schema whose types a and `b:b` have an object field with a
\* reference to a among its children and an array with an array of a reference to
\* `b:b` among its items was converted; the edges it has are those of the array's
\* direct items.
C30_Witness ==
    /\ pc = "converted"
    /\ GraphTypeNames = {a, bb}
    /\ \A i \in 1..Len(Sch.types) : Sch.types[i].fields = Some(<<Obj, Arr>>)
    /\ Len(edges) > 0
    /\ \A e \in 1..Len(edges) :
          edges[e].target # bb /\ edges[e].label = <<"a", "[", "]", "?">>

====
